---------------------------- MODULE Spec2Model ----------------------------
(***************************************************************************)
(* A model of the retrieval-augmented generation core of                   *)
(* personal-rag-system: the query endpoint (app/api/query.py), the         *)
(* orchestrator (app/services/rag.py), the embedding gateway and the       *)
(* similarity search (app/services/embeddings.py) and the store            *)
(* operations they use (app/crud.py).                                      *)
(*                                                                         *)
(* Strings are modelled by their shape: a text is a record                 *)
(*   [tag, lead, body, trail]                                              *)
(* with `lead` leading whitespace characters, a core of `body` characters  *)
(* that starts and ends with a non-whitespace character, and `trail`       *)
(* trailing whitespace characters; `tag` names the content.  str.strip()   *)
(* removes lead and trail, len() is their sum.                             *)
(***************************************************************************)
EXTENDS Integers, Sequences, FiniteSets, TLC

VARIABLES
    fnIn,            \* argument of a function applied on its own
    fnOut,           \* its return value
    gwPc,            \* position inside the embedding gateway call
    gwKind,          \* "one" (generate_embedding) or "many" (batch_generate_embeddings)
    texts,           \* the gateway call's input texts
    i,               \* batch_generate_embeddings: offset of the current sub-batch
    attempt,         \* the retry loop's attempt counter
    all_embeddings,  \* batch_generate_embeddings: vectors collected so far
    gwOut,           \* what the gateway call returned or raised
    gwLog,           \* backend calls and sleeps of the gateway call, in order
    pc,              \* position of the query request
    req,             \* the query request
    documents,       \* table documents
    embeddings,      \* table embeddings, in the order a scan returns the rows
                     \* (the rows' primary keys are not modelled)
    query_history,   \* table query_history
    query_embedding, \* process_query: the query's vector
    similar_chunks,  \* process_query: the search results
    context,         \* process_query: the built context (list of chunk texts)
    sources,         \* process_query: the source references
    answer,          \* process_query: the generated answer
    result,          \* what process_query returned
    resp,            \* what the endpoint sent to the caller
    steps,           \* the steps of the query performed so far, in order
    calls            \* calls made by the query to search, generator and history

fnVars == <<fnIn, fnOut>>
gwVars == <<gwPc, gwKind, texts, i, attempt, all_embeddings, gwOut, gwLog>>
storeVars == <<documents, embeddings, query_history>>
localVars == <<query_embedding, similar_chunks, context, sources, answer>>
qVars == <<pc, req, localVars, result, resp, steps, calls>>
vars == <<fnVars, gwVars, storeVars, qVars>>

-----------------------------------------------------------------------------
(* Bounds of the model *)

\* longest run of whitespace put before or after a text
MaxPad == 2
\* how far around a length limit the text lengths are drawn
Margin == 2
\* most sub-batches of a batch_generate_embeddings call
MaxBatches == 2
\* most documents in the store
MaxDocs == 2
\* most rows of the embeddings table a search scans
MaxRows == 3
\* most results given to _build_context
MaxResults == 3

(* Constants of the program *)

\* rag.py:159
MaxQueryLen == 500
\* rag.py:162
MinQueryLen == 3
\* embeddings.py:21
batch_size == 100
\* embeddings.py:22
max_retries == 3
\* rag.py:16, min_similarity_threshold = 0.7, in tenths
min_similarity_tenths == 7
\* rag.py:17
max_context_length == 4000
\* rag.py:42
search_limit == 5
\* schemas.py:81
default_top_k == 5
\* rag.py:141, len("\n\n")
separator_len == 2
\* query.py:68, the cap the endpoints put on a caller's limit
max_limit == 50

-----------------------------------------------------------------------------
(* Texts *)

Text(tag, lead, body, trail) == [tag |-> tag, lead |-> lead, body |-> body, trail |-> trail]

\* len(s)
Len_(s) == s.lead + s.body + s.trail

\* s.strip()
Strip(s) == [s EXCEPT !.lead = 0, !.trail = 0]

\* truthiness of a string: non-empty
Truthy(s) == Len_(s) > 0

Max(a, b) == IF a >= b THEN a ELSE b

Min(a, b) == IF a <= b THEN a ELSE b

\* 2 ** n
RECURSIVE Pow2(_)
Pow2(n) == IF n = 0 THEN 1 ELSE 2 * Pow2(n - 1)

-----------------------------------------------------------------------------
(* RAGService.validate_query *)

MsgEmpty == "Query cannot be empty"
MsgTooLong == "Query is too long. Maximum 500 characters allowed."
MsgTooShort == "Query is too short. Please provide at least 3 characters."
NoMsg == "None"

\* same checks, but the length limit taken on the trimmed text
validate_query_trimmed(query) ==
    IF ~Truthy(query) \/ ~Truthy(Strip(query)) THEN <<FALSE, MsgEmpty>>
    ELSE IF Len_(Strip(query)) > MaxQueryLen THEN <<FALSE, MsgTooLong>>
    ELSE IF Len_(Strip(query)) < MinQueryLen THEN <<FALSE, MsgTooShort>>
    ELSE <<TRUE, NoMsg>>

validate_query(query) ==
    IF ~Truthy(query) \/ ~Truthy(Strip(query)) THEN <<FALSE, MsgEmpty>>
    ELSE IF Len_(query) > MaxQueryLen THEN <<FALSE, MsgTooLong>>
    ELSE IF Len_(Strip(query)) < MinQueryLen THEN <<FALSE, MsgTooShort>>
    ELSE <<TRUE, NoMsg>>

-----------------------------------------------------------------------------
(* The embedding backend (OpenAI embeddings.create), a black box: a call    *)
(* succeeds, signals a rate limit, or fails otherwise.  On success it       *)
(* returns one vector per input text, in input order; the vector depends   *)
(* on the text's content only.                                             *)

Tags == 0 .. 3

EmbedVec(tag) ==
    CASE tag = 0 -> <<1, 0>>
      [] tag = 1 -> <<2, 1>>
      [] tag = 2 -> <<1, 2>>
      [] OTHER   -> <<0, 1>>

BackendVector(text) == EmbedVec(text.tag)

NoExc == [type |-> "none", text |-> ""]
RateLimitError == [type |-> "RateLimitError", text |-> "Rate limit reached for requests"]
BackendError == [type |-> "APIConnectionError", text |-> "Connection error."]
ValueErrorEmpty == [type |-> "ValueError", text |-> "Text cannot be empty"]

Returned(v) == [kind |-> "return", value |-> v, exc |-> NoExc]
Raised(e) == [kind |-> "raise", value |-> <<>>, exc |-> e]
NoOut == [kind |-> "none", value |-> <<>>, exc |-> NoExc]

CallEv(from, size, outcome) ==
    [ev |-> "call", from |-> from, size |-> size, outcome |-> outcome, secs |-> 0]
SleepEv(secs) ==
    [ev |-> "sleep", from |-> 0, size |-> 0, outcome |-> "", secs |-> secs]

-----------------------------------------------------------------------------
(* EmbeddingService.generate_embedding *)

\* entry of generate_embedding(text): the empty-text check, then the retry loop
generate_embedding(text) ==
    /\ gwPc = "idle"
    /\ gwKind' = "one"
    /\ texts' = <<text>>
    /\ i' = 0
    /\ attempt' = 0
    /\ all_embeddings' = <<>>
    /\ gwLog' = <<>>
    /\ IF ~Truthy(Strip(text))
         THEN gwPc' = "raised" /\ gwOut' = Raised(ValueErrorEmpty)
         ELSE gwPc' = "call" /\ gwOut' = NoOut

\* embeddings.create succeeds: return response.data[0].embedding
GenCallOk ==
    /\ gwPc = "call" /\ gwKind = "one"
    /\ gwLog' = Append(gwLog, CallEv(0, 1, "ok"))
    /\ gwOut' = Returned(BackendVector(texts[1]))
    /\ gwPc' = "returned"
    /\ UNCHANGED <<gwKind, texts, i, attempt, all_embeddings>>
    /\ UNCHANGED <<fnVars, storeVars, qVars>>

\* the rate-limit handler, retrying even after the last attempt
GenCallRateLimitedForever ==
    /\ gwPc = "call" /\ gwKind = "one"
    /\ gwLog' = Append(gwLog, CallEv(0, 1, "rate_limit"))
    /\ gwPc' = "sleep" /\ gwOut' = gwOut
    /\ UNCHANGED <<gwKind, texts, i, attempt, all_embeddings>>
    /\ UNCHANGED <<fnVars, storeVars, qVars>>

\* embeddings.create raises RateLimitError
GenCallRateLimited ==
    /\ gwPc = "call" /\ gwKind = "one"
    /\ gwLog' = Append(gwLog, CallEv(0, 1, "rate_limit"))
    /\ IF attempt < max_retries - 1
         THEN gwPc' = "sleep" /\ gwOut' = gwOut
         ELSE gwPc' = "raised" /\ gwOut' = Raised(RateLimitError)
    /\ UNCHANGED <<gwKind, texts, i, attempt, all_embeddings>>
    /\ UNCHANGED <<fnVars, storeVars, qVars>>

\* time.sleep(2 ** attempt), then the next iteration of the retry loop
GenSleep ==
    /\ gwPc = "sleep" /\ gwKind = "one"
    /\ gwLog' = Append(gwLog, SleepEv(Pow2(attempt)))
    /\ attempt' = attempt + 1
    /\ gwPc' = "call"
    /\ UNCHANGED <<gwKind, texts, i, all_embeddings, gwOut>>
    /\ UNCHANGED <<fnVars, storeVars, qVars>>

\* any other exception, handled like a rate limit
GenCallErrorRetried ==
    /\ gwPc = "call" /\ gwKind = "one"
    /\ gwLog' = Append(gwLog, CallEv(0, 1, "error"))
    /\ IF attempt < max_retries - 1
         THEN gwPc' = "sleep" /\ gwOut' = gwOut
         ELSE gwPc' = "raised" /\ gwOut' = Raised(BackendError)
    /\ UNCHANGED <<gwKind, texts, i, attempt, all_embeddings>>
    /\ UNCHANGED <<fnVars, storeVars, qVars>>

\* embeddings.create raises any other exception: logged and re-raised
GenCallError ==
    /\ gwPc = "call" /\ gwKind = "one"
    /\ gwLog' = Append(gwLog, CallEv(0, 1, "error"))
    /\ gwPc' = "raised" /\ gwOut' = Raised(BackendError)
    /\ UNCHANGED <<gwKind, texts, i, attempt, all_embeddings>>
    /\ UNCHANGED <<fnVars, storeVars, qVars>>

-----------------------------------------------------------------------------
(* EmbeddingService.batch_generate_embeddings *)

\* texts[i:i + self.batch_size]
Batch == SubSeq(texts, i + 1, Min(i + batch_size, Len(texts)))

\* entry of batch_generate_embeddings(ts)
batch_generate_embeddings(ts) ==
    /\ gwPc = "idle"
    /\ gwKind' = "many"
    /\ texts' = ts
    /\ i' = 0
    /\ attempt' = 0
    /\ all_embeddings' = <<>>
    /\ gwLog' = <<>>
    /\ IF ts = <<>>
         THEN gwPc' = "returned" /\ gwOut' = Returned(<<>>)
         ELSE gwPc' = "call" /\ gwOut' = NoOut

\* a successful sub-batch whose vectors replace, not extend, the collected ones
BatchCallOkOverwrite ==
    /\ gwPc = "call" /\ gwKind = "many"
    /\ gwLog' = Append(gwLog, CallEv(i, Len(Batch), "ok"))
    /\ all_embeddings' = [k \in 1 .. Len(Batch) |-> BackendVector(Batch[k])]
    /\ i' = i + batch_size
    /\ attempt' = 0
    /\ IF i' < Len(texts)
         THEN gwPc' = "call" /\ gwOut' = gwOut
         ELSE gwPc' = "returned" /\ gwOut' = Returned(all_embeddings')
    /\ UNCHANGED <<gwKind, texts>>
    /\ UNCHANGED <<fnVars, storeVars, qVars>>

\* embeddings.create succeeds for the sub-batch: extend, break, next sub-batch
BatchCallOk ==
    /\ gwPc = "call" /\ gwKind = "many"
    /\ gwLog' = Append(gwLog, CallEv(i, Len(Batch), "ok"))
    /\ all_embeddings' =
           all_embeddings \o [k \in 1 .. Len(Batch) |-> BackendVector(Batch[k])]
    /\ i' = i + batch_size
    /\ attempt' = 0
    /\ IF i' < Len(texts)
         THEN gwPc' = "call" /\ gwOut' = gwOut
         ELSE gwPc' = "returned" /\ gwOut' = Returned(all_embeddings')
    /\ UNCHANGED <<gwKind, texts>>
    /\ UNCHANGED <<fnVars, storeVars, qVars>>

\* embeddings.create raises RateLimitError for the sub-batch
BatchCallRateLimited ==
    /\ gwPc = "call" /\ gwKind = "many"
    /\ gwLog' = Append(gwLog, CallEv(i, Len(Batch), "rate_limit"))
    /\ IF attempt < max_retries - 1
         THEN gwPc' = "sleep" /\ gwOut' = gwOut
         ELSE gwPc' = "raised" /\ gwOut' = Raised(RateLimitError)
    /\ UNCHANGED <<gwKind, texts, i, attempt, all_embeddings>>
    /\ UNCHANGED <<fnVars, storeVars, qVars>>

\* time.sleep(2 ** attempt), then the next attempt at the same sub-batch
BatchSleep ==
    /\ gwPc = "sleep" /\ gwKind = "many"
    /\ gwLog' = Append(gwLog, SleepEv(Pow2(attempt)))
    /\ attempt' = attempt + 1
    /\ gwPc' = "call"
    /\ UNCHANGED <<gwKind, texts, i, all_embeddings, gwOut>>
    /\ UNCHANGED <<fnVars, storeVars, qVars>>

\* a failing sub-batch that is skipped: the loop goes on, the rest is returned
BatchCallErrorPartial ==
    /\ gwPc = "call" /\ gwKind = "many"
    /\ gwLog' = Append(gwLog, CallEv(i, Len(Batch), "error"))
    /\ i' = i + batch_size
    /\ attempt' = 0
    /\ IF i' < Len(texts)
         THEN gwPc' = "call" /\ gwOut' = gwOut
         ELSE gwPc' = "returned" /\ gwOut' = Returned(all_embeddings)
    /\ UNCHANGED <<gwKind, texts, all_embeddings>>
    /\ UNCHANGED <<fnVars, storeVars, qVars>>

\* embeddings.create raises any other exception: logged and re-raised
BatchCallError ==
    /\ gwPc = "call" /\ gwKind = "many"
    /\ gwLog' = Append(gwLog, CallEv(i, Len(Batch), "error"))
    /\ gwPc' = "raised" /\ gwOut' = Raised(BackendError)
    /\ UNCHANGED <<gwKind, texts, i, attempt, all_embeddings>>
    /\ UNCHANGED <<fnVars, storeVars, qVars>>

-----------------------------------------------------------------------------
(* Cosine similarity.  Vectors are tuples of integers; a similarity         *)
(* dot(q, d) / (|q| * |d|) is kept exactly, as the pair of its numerator    *)
(* and its squared denominator.  The vectors are kept small enough for      *)
(* the products below to stay within TLC's 32-bit integers.                *)

RECURSIVE DotUpTo(_, _, _)
DotUpTo(a, b, n) == IF n = 0 THEN 0 ELSE a[n] * b[n] + DotUpTo(a, b, n - 1)

\* np.dot(a, b), for vectors of equal length
Dot(a, b) == DotUpTo(a, b, Len(a))

\* np.dot(q, d) / (np.linalg.norm(q) * np.linalg.norm(d))
Cosine(q, d) == [num |-> Dot(q, d), den2 |-> Dot(q, q) * Dot(d, d)]

\* a similarity with a zero norm in its denominator: 0.0 / 0.0, numpy's nan
\* (a warning, no exception)
IsNaN(s) == s.den2 = 0

\* s >= a / b, for b > 0; False for nan
GeRat(s, a, b) ==
    /\ ~IsNaN(s)
    /\ IF a <= 0
         THEN s.num >= 0 \/ s.num * s.num * b * b <= a * a * s.den2
         ELSE s.num >= 0 /\ s.num * s.num * b * b >= a * a * s.den2

\* s < a / b, for b > 0; False for nan
LtRat(s, a, b) == ~IsNaN(s) /\ ~GeRat(s, a, b)

\* s < t, as floats compare; False when either is nan
SimLess(s, t) ==
    /\ ~IsNaN(s) /\ ~IsNaN(t)
    /\ IF s.num >= 0
         THEN t.num >= 0 /\ s.num * s.num * t.den2 < t.num * t.num * s.den2
         ELSE t.num >= 0 \/ s.num * s.num * t.den2 > t.num * t.num * s.den2

\* round(s, 3) of a number, in thousandths: the r with
\* r - 1/2 <= 1000 * s < r + 1/2, looked for within the tenth that holds s
Round3(s) ==
    LET c == CHOOSE t \in -10 .. 10 : GeRat(s, t, 10) /\ (t = 10 \/ ~GeRat(s, t + 1, 10))
    IN  CHOOSE r \in Max(-1000, 100 * c - 1) .. Min(1000, 100 * c + 101) :
            GeRat(s, 2 * r - 1, 2000) /\ ~GeRat(s, 2 * r + 1, 2000)

\* round(s, 3): nan stays nan
RoundSim(s) ==
    IF IsNaN(s) THEN [nan |-> TRUE, milli |-> 0] ELSE [nan |-> FALSE, milli |-> Round3(s)]

-----------------------------------------------------------------------------
(* The store: crud.create_document and EmbeddingService.store_embeddings *)

Users == {1, 2}

Filename(id) == <<"file", id>>

\* a chunk text with the content `tag`
Chunk(tag, lead, body) == Text(tag, lead, body, 0)

\* the chunk lists documents are stored with; each chunk's vector is the
\* backend's vector of its text
ChunkLists ==
    { <<Chunk(3, 1, 30)>>,
      <<Chunk(2, 0, 30), Chunk(1, 0, 2500), Chunk(0, 2, 2000)>> }

\* crud.create_document(db, document, user_id)
create_document(user_id) ==
    /\ pc = "idle"
    /\ Len(documents) < MaxDocs
    /\ documents' = Append(documents,
           [id |-> Len(documents) + 1, user_id |-> user_id,
            filename |-> Filename(Len(documents) + 1)])
    /\ UNCHANGED <<embeddings, query_history, fnVars, gwVars, qVars>>

CreateDocument == \E u \in Users : create_document(u)

\* the rows store_embeddings adds: one per pair of zip(chunks, vectors)
NewRows(document_id, chunks, vectors) ==
    [k \in 1 .. Min(Len(chunks), Len(vectors)) |->
        [document_id |-> document_id, chunk_text |-> chunks[k],
         embedding |-> vectors[k], chunk_index |-> k - 1]]

\* EmbeddingService.store_embeddings(db, document_id, chunks, embeddings),
\* committed: the document's rows deleted, the new rows added.  (For a missing
\* document, and after a rollback, it returns False and the tables are as before.)
store_embeddings(document_id, chunks, vectors) ==
    /\ pc = "idle"
    /\ \E d \in 1 .. Len(documents) : documents[d].id = document_id
    /\ embeddings' =
           SelectSeq(embeddings, LAMBDA e : e.document_id # document_id)
             \o NewRows(document_id, chunks, vectors)
    /\ UNCHANGED <<documents, query_history, fnVars, gwVars, qVars>>

StoreEmbeddings ==
    \E d \in 1 .. Len(documents), chunks \in ChunkLists :
        store_embeddings(documents[d].id, chunks,
                         [k \in 1 .. Len(chunks) |-> BackendVector(chunks[k])])

\* crud.get_user_documents(db, user_id)
get_user_documents(user_id) ==
    SelectSeq(documents, LAMBDA d : d.user_id = user_id)

-----------------------------------------------------------------------------
(* EmbeddingService.search_similar_chunks *)

\* the document of a row (emb.document)
DocumentOf(emb) ==
    SelectSeq(documents, LAMBDA d : d.id = emb.document_id)

\* the rows of the scan: all rows, or those joined to a document of the user
ScanRows(user_id) ==
    IF user_id # 0
      THEN SelectSeq(embeddings,
               LAMBDA e : \E d \in 1 .. Len(documents) :
                   documents[d].id = e.document_id /\ documents[d].user_id = user_id)
      ELSE embeddings

\* x['similarity'] < y['similarity'], the comparison the sort makes
KeyLess(x, y) == SimLess(x.similarity, y.similarity)

Reverse(xs) == [k \in 1 .. Len(xs) |-> xs[Len(xs) + 1 - k]]

\* list.sort of CPython, for lists of fewer than 64 items: the run the list
\* starts with is counted (and reversed when strictly descending), the rest
\* is put in place by binary insertion.
RECURSIVE RunEnd(_, _, _)
RunEnd(xs, n, descending) ==
    IF n < Len(xs) /\ (KeyLess(xs[n + 1], xs[n]) <=> descending)
      THEN RunEnd(xs, n + 1, descending)
      ELSE n

count_run(xs) ==
    IF Len(xs) < 2 THEN [n |-> Len(xs), descending |-> FALSE]
    ELSE LET descending == KeyLess(xs[2], xs[1])
         IN  [n |-> RunEnd(xs, 2, descending), descending |-> descending]

\* the place of pivot among the sorted items l+1 .. r (l, r count from 0)
RECURSIVE BinPos(_, _, _, _)
BinPos(sorted, pivot, l, r) ==
    IF l >= r THEN l
    ELSE LET p == l + ((r - l) \div 2)
         IN  IF KeyLess(pivot, sorted[p + 1])
               THEN BinPos(sorted, pivot, l, p)
               ELSE BinPos(sorted, pivot, p + 1, r)

RECURSIVE binarysort(_, _)
binarysort(sorted, rest) ==
    IF rest = <<>> THEN sorted
    ELSE LET l == BinPos(sorted, rest[1], 0, Len(sorted))
         IN  binarysort(SubSeq(sorted, 1, l) \o <<rest[1]>>
                            \o SubSeq(sorted, l + 1, Len(sorted)),
                        Tail(rest))

\* similarities.sort(key=similarity, reverse=True): the list is reversed,
\* sorted ascending and reversed again, which keeps the order of equal keys
SortDesc(xs) ==
    LET ys == Reverse(xs)
        run == count_run(ys)
        head == IF run.descending THEN Reverse(SubSeq(ys, 1, run.n))
                                  ELSE SubSeq(ys, 1, run.n)
    IN  Reverse(binarysort(head, SubSeq(ys, run.n + 1, Len(ys))))

\* the first `limit` scored rows as they are, the sort left out
TopUnsorted(similarities, limit) ==
    SubSeq(similarities, 1, Min(limit, Len(similarities)))

\* the sort, then similarities[:limit]
Top(similarities, limit) ==
    SubSeq(SortDesc(similarities), 1, Min(limit, Len(similarities)))

\* EmbeddingService.search_similar_chunks(db, query_embedding, user_id, limit).
\* np.dot of two vectors of different lengths raises ValueError, which the
\* handler of lines 211-213 turns into the empty list.
search_similar_chunks(query_vec, user_id, limit) ==
    LET rows == ScanRows(user_id)
        scored == SelectSeq(rows, LAMBDA e : e.embedding # <<>>)
        mismatch == \E k \in 1 .. Len(scored) : Len(scored[k].embedding) # Len(query_vec)
        similarities ==
            [k \in 1 .. Len(scored) |->
                [embedding |-> scored[k],
                 similarity |-> Cosine(query_vec, scored[k].embedding)]]
        top == Top(similarities, limit)
    IN  IF rows = <<>> THEN <<>>
        ELSE IF mismatch THEN <<>>
        ELSE [k \in 1 .. Len(top) |->
                [document_id |-> top[k].embedding.document_id,
                 chunk_text |-> top[k].embedding.chunk_text,
                 chunk_index |-> top[k].embedding.chunk_index,
                 similarity |-> top[k].similarity,
                 document_filename |->
                     IF DocumentOf(top[k].embedding) # <<>>
                       THEN DocumentOf(top[k].embedding)[1].filename
                       ELSE <<"None", 0>>]]

-----------------------------------------------------------------------------
(* RAGService._build_context *)

\* len("\n\n".join(parts))
RECURSIVE SumLen(_)
SumLen(parts) ==
    IF parts = <<>> THEN 0 ELSE Len_(parts[Len(parts)]) + SumLen(SubSeq(parts, 1, Len(parts) - 1))

JoinedLen(parts) ==
    IF parts = <<>> THEN 0 ELSE SumLen(parts) + separator_len * (Len(parts) - 1)

\* every result taken as relevant, the threshold left out
BelowThresholdNever(chunk) == FALSE

\* chunk.get('similarity', 0) < self.min_similarity_threshold
BelowThreshold(chunk) == LtRat(chunk.similarity, min_similarity_tenths, 10)

\* every included chunk adds a source
AlreadySourceNever(srcs, source_info) == FALSE

\* any(s['document_id'] == source_info['document_id'] for s in sources)
AlreadySource(srcs, source_info) ==
    \E j \in 1 .. Len(srcs) : srcs[j].document_id = source_info.document_id

RECURSIVE BuildFrom(_, _, _)

\* a result that does not fit is passed over and the loop goes on (continue)
OverBudgetSkips(chunks, k, st) == BuildFrom(chunks, k + 1, st)

\* a result that does not fit ends the loop (break)
OverBudget(chunks, k, st) == st

\* the loop of _build_context from result k on; st = [parts, sources, length]
BuildFrom(chunks, k, st) ==
    IF k > Len(chunks) THEN st
    ELSE
      LET chunk == chunks[k]
          chunk_text == Strip(chunk.chunk_text)
          source_info ==
              [document_id |-> chunk.document_id,
               document_filename |-> chunk.document_filename,
               chunk_index |-> chunk.chunk_index,
               similarity |-> RoundSim(chunk.similarity)]
      IN  IF BelowThreshold(chunk) THEN BuildFrom(chunks, k + 1, st)
          ELSE IF ~Truthy(chunk_text) THEN BuildFrom(chunks, k + 1, st)
          ELSE IF st.length + Len_(chunk_text) > max_context_length
                 THEN OverBudget(chunks, k, st)
          ELSE BuildFrom(chunks, k + 1,
                 [parts |-> Append(st.parts, chunk_text),
                  length |-> st.length + Len_(chunk_text),
                  sources |->
                      IF AlreadySource(st.sources, source_info)
                        THEN st.sources
                        ELSE Append(st.sources, source_info)])

\* _build_context(similar_chunks): the context (its parts) and the sources
build_context(chunks) ==
    LET st == BuildFrom(chunks, 1, [parts |-> <<>>, sources |-> <<>>, length |-> 0])
    IN  <<st.parts, st.sources>>


-----------------------------------------------------------------------------
(* Inputs *)

\* the lengths within Margin of n
Near(n) == Max(0, n - Margin) .. n + Margin

\* texts around the limits of validate_query, with and without padding
QueryTexts ==
    { Text(0, l, b, t) :
        l \in 0 .. MaxPad \cup {MaxQueryLen},
        b \in Near(0) \cup Near(MinQueryLen) \cup Near(MaxQueryLen),
        t \in 0 .. MaxPad } \ { Text(0, l, 0, t) : l \in 0 .. MaxQueryLen, t \in 1 .. MaxPad }

\* texts given to generate_embedding
EmbedTexts == { Text(g, l, b, 0) : g \in Tags, l \in 0 .. MaxPad, b \in Near(0) }

\* the n texts g, g+1, ... (mod the number of contents)
TextList(n, g) == [k \in 1 .. n |-> Text((g + k) % Cardinality(Tags), 0, 1 + (k % 2), 0)]

\* lists given to batch_generate_embeddings: lengths around the multiples of batch_size
BatchInputs ==
    { TextList(n, g) :
        n \in { m * batch_size + d : m \in 0 .. MaxBatches, d \in {-1, 0, 1} }
                \cap 0 .. MaxBatches * batch_size,
        g \in {0, 1} }

-----------------------------------------------------------------------------
(* Initial state: the services constructed, the store empty, no request *)

NoArg == [done |-> FALSE]
NoResult == [none |-> TRUE]
NoReq == [query |-> Text(0, 0, 0, 0), user_id |-> 0, top_k |-> 0]

InitGateway ==
    /\ gwPc = "idle" /\ gwKind = "one" /\ texts = <<>> /\ i = 0 /\ attempt = 0
    /\ all_embeddings = <<>> /\ gwOut = NoOut /\ gwLog = <<>>

InitStore ==
    /\ documents = <<>> /\ embeddings = <<>> /\ query_history = <<>>

InitQuery ==
    /\ pc = "idle" /\ req = NoReq
    /\ query_embedding = <<>> /\ similar_chunks = <<>> /\ context = <<>>
    /\ sources = <<>> /\ answer = ""
    /\ result = NoResult /\ resp = NoResult /\ steps = <<>>
    /\ calls = [search |-> 0, generate |-> 0, history |-> 0]

Init ==
    /\ fnIn = NoArg /\ fnOut = NoArg
    /\ InitGateway /\ InitStore /\ InitQuery

-----------------------------------------------------------------------------
(* validate_query applied to every input text *)

InitValidate ==
    /\ fnIn \in QueryTexts /\ fnOut = NoArg
    /\ InitGateway /\ InitStore /\ InitQuery

CallValidateQuery ==
    /\ fnOut = NoArg
    /\ fnOut' = [done |-> TRUE, valid |-> validate_query(fnIn)[1],
                 msg |-> validate_query(fnIn)[2]]
    /\ UNCHANGED <<fnIn, gwVars, storeVars, qVars>>

NextValidate == CallValidateQuery

SpecValidate == InitValidate /\ [][NextValidate]_vars

-----------------------------------------------------------------------------
(* The embedding gateway called on its own *)

CallGenerateEmbedding ==
    /\ \E text \in EmbedTexts : generate_embedding(text)
    /\ UNCHANGED <<fnVars, storeVars, qVars>>

CallBatchGenerateEmbeddings ==
    /\ \E ts \in BatchInputs : batch_generate_embeddings(ts)
    /\ UNCHANGED <<fnVars, storeVars, qVars>>

NextEmbed ==
    \/ CallGenerateEmbedding
    \/ GenCallOk
    \/ GenCallRateLimited
    \/ GenSleep
    \/ GenCallError
    \/ CallBatchGenerateEmbeddings
    \/ BatchCallOk
    \/ BatchCallRateLimited
    \/ BatchSleep
    \/ BatchCallError

SpecEmbed == Init /\ [][NextEmbed]_vars

-----------------------------------------------------------------------------
(* search_similar_chunks applied to every store and every query vector.    *)
(* The table holds whatever vectors store_embeddings was given: vectors of *)
(* the query's dimension, the zero vector, a vector of another dimension   *)
(* (stored by another embedding model) and the empty list.  A scan returns *)
(* the rows in no particular order.                                        *)

SearchDocuments ==
    [d \in 1 .. Cardinality(Users) |-> [id |-> d, user_id |-> d, filename |-> Filename(d)]]

SearchVectors == { <<1, 0>>, <<2, 1>>, <<0, 0>>, <<1, 0, 0>>, <<>> }

RowKinds == [doc : 1 .. Len(SearchDocuments), vec : SearchVectors]

\* the rows of the kinds ks; chunk_index counts the rows of the same document
RowsOf(ks) ==
    [k \in 1 .. Len(ks) |->
        [document_id |-> ks[k].doc, chunk_text |-> Chunk(0, 0, 30),
         embedding |-> ks[k].vec,
         chunk_index |-> Cardinality({ j \in 1 .. k - 1 : ks[j].doc = ks[k].doc })]]

SearchStores == { RowsOf(ks) : ks \in UNION { [1 .. n -> RowKinds] : n \in 0 .. MaxRows } }

\* the query vectors, the zero vector among them
QueryVectors == { <<1, 0>>, <<2, 1>>, <<0, 0>> }

\* user_id as search_similar_chunks takes it: any integer (or None)
SearchUserIds == {0} \cup Users

SearchLimits == {1, search_limit}

InitSearch ==
    /\ fnIn \in [query_embedding : QueryVectors, user_id : SearchUserIds, limit : SearchLimits]
    /\ fnOut = NoArg
    /\ documents = SearchDocuments /\ embeddings \in SearchStores /\ query_history = <<>>
    /\ InitGateway /\ InitQuery

CallSearchSimilarChunks ==
    /\ fnOut = NoArg
    /\ fnOut' = [done |-> TRUE,
                 value |-> search_similar_chunks(fnIn.query_embedding, fnIn.user_id, fnIn.limit)]
    /\ UNCHANGED <<fnIn, gwVars, storeVars, qVars>>

NextSearch == CallSearchSimilarChunks

SpecSearch == InitSearch /\ [][NextSearch]_vars

-----------------------------------------------------------------------------
(* _build_context applied to every list of results a search can return:    *)
(* similarities below and at the threshold or undefined, texts that are    *)
(* blank or fill a third or two thirds of the budget, chunks of one or two *)
(* documents.                                                              *)

BuildSims == { [num |-> 3, den2 |-> 25], [num |-> 7, den2 |-> 100], [num |-> 0, den2 |-> 0] }

BuildTexts == { Chunk(0, 2, 0), Chunk(1, 2, 1300), Chunk(2, 0, 1400), Chunk(3, 0, 2700) }

\* the kinds of results; the undefined similarity comes with one document and text
ResultKinds ==
    { r \in [doc : 1 .. Len(SearchDocuments), sim : BuildSims, text : BuildTexts] :
        IsNaN(r.sim) => r.doc = 1 /\ r.text = Chunk(1, 2, 1300) }

\* the results of the kinds ks, as search_similar_chunks builds them
ResultsOf(ks) ==
    [k \in 1 .. Len(ks) |->
        [document_id |-> ks[k].doc, chunk_text |-> ks[k].text,
         chunk_index |-> Cardinality({ j \in 1 .. k - 1 : ks[j].doc = ks[k].doc }),
         similarity |-> ks[k].sim,
         document_filename |-> Filename(ks[k].doc)]]

\* the lists as the search's sort leaves them
BuildInputs ==
    { SortDesc(ResultsOf(ks)) : ks \in UNION { [1 .. n -> ResultKinds] : n \in 0 .. MaxResults } }

InitBuild ==
    /\ fnIn \in BuildInputs /\ fnOut = NoArg
    /\ InitGateway /\ InitStore /\ InitQuery

CallBuildContext ==
    /\ fnOut = NoArg
    /\ LET built == build_context(fnIn)
       IN  fnOut' = [done |-> TRUE, context |-> built[1], sources |-> built[2]]
    /\ UNCHANGED <<fnIn, gwVars, storeVars, qVars>>

NextBuild == CallBuildContext

SpecBuild == InitBuild /\ [][NextBuild]_vars

-----------------------------------------------------------------------------
(* The query request: query_documents (api/query.py) and                   *)
(* RAGService.process_query (services/rag.py).  One request is followed    *)
(* from its arrival to its response, against the store as the operations   *)
(* above left it.                                                          *)

MsgNoDocuments == "You need to upload at least one document before making queries."
MsgNoChunks ==
    "I couldn't find any relevant information in your documents to answer this question."
MsgInsufficient ==
    "I couldn't find sufficiently relevant information in your documents to answer this question."
MsgFailed ==
    "I'm sorry, but I encountered an error while processing your query. Please try again."

\* the answer-generation backend (crud.generate_answer), a black box
Answers == {"answer one", "answer two"}
GenerationError == [type |-> "APIError", text |-> "The server had an error while processing your request"]
\* a failed commit of the query_history row
HistoryError == [type |-> "OperationalError", text |-> "database is locked"]

NoBody == [none |-> TRUE]
HttpError(status, detail) ==
    [kind |-> "http_error", status |-> status, detail |-> detail, body |-> NoBody]
Unhandled(exc) ==
    [kind |-> "unhandled", status |-> 500, detail |-> exc, body |-> NoBody]
HttpOk(body) ==
    [kind |-> "ok", status |-> 200, detail |-> "", body |-> body]

\* the requests: the query texts, the authenticated user, top_k
RequestTexts ==
    { Text(0, 0, 0, 0), Text(0, MaxPad, 0, 0), Text(0, 1, MinQueryLen - 1, 0),
      Text(0, 1, MinQueryLen, 1), Text(1, 0, MaxQueryLen, 0),
      Text(0, 0, MaxQueryLen + 1, 0) }
TopKs == {1, default_top_k}

\* the query as process_query gets it: query_request.query.strip()
Query == Strip(req.query)

\* the dicts process_query returns
NoChunksResult ==
    [answer |-> MsgNoChunks, sources |-> <<>>, context_used |-> FALSE]
InsufficientResult ==
    [answer |-> MsgInsufficient, sources |-> <<>>, context_used |-> FALSE]
AnsweredResult(a, srcs, q) ==
    [answer |-> a, sources |-> srcs, context_used |-> TRUE, query |-> q]
FailedResult(e) ==
    [answer |-> MsgFailed, sources |-> <<>>, context_used |-> FALSE, error |-> e.text]

Step(name) == steps' = Append(steps, name)

\* query_documents, lines 22-26: strip, validate_query, 400 when invalid
QueryDocuments ==
    /\ pc = "idle"
    /\ \E q \in RequestTexts, u \in Users, k \in TopKs :
          /\ req' = [query |-> q, user_id |-> u, top_k |-> k]
          /\ IF validate_query(Strip(q))[1]
               THEN pc' = "check_documents" /\ resp' = resp
               ELSE pc' = "done" /\ resp' = HttpError(400, validate_query(Strip(q))[2])
    /\ Step("validate")
    /\ UNCHANGED <<localVars, result, calls, fnVars, gwVars, storeVars>>

\* the document check left out: every validated query is processed
CheckDocumentsSkipped ==
    /\ pc = "check_documents"
    /\ pc' = "embed" /\ resp' = resp
    /\ Step("check_documents")
    /\ UNCHANGED <<req, localVars, result, calls, fnVars, gwVars, storeVars>>

\* query_documents, lines 28-34: 400 when the user has no document
CheckDocuments ==
    /\ pc = "check_documents"
    /\ IF get_user_documents(req.user_id) = <<>>
         THEN pc' = "done" /\ resp' = HttpError(400, MsgNoDocuments)
         ELSE pc' = "embed" /\ resp' = resp
    /\ Step("check_documents")
    /\ UNCHANGED <<req, localVars, result, calls, fnVars, gwVars, storeVars>>

\* the query recorded in the history table as soon as processing starts
ProcessQueryEmbedRecordsQuery ==
    /\ pc = "embed"
    /\ generate_embedding(Query)
    /\ pc' = "embedding"
    /\ query_history' = Append(query_history,
           [user_id |-> req.user_id, query |-> Query, answer |-> "", sources_count |-> 0])
    /\ Step("embed")
    /\ UNCHANGED <<req, localVars, result, resp, calls, fnVars, documents, embeddings>>

\* process_query, step 1: call generate_embedding(query)
ProcessQueryEmbed ==
    /\ pc = "embed"
    /\ generate_embedding(Query)
    /\ pc' = "embedding"
    /\ Step("embed")
    /\ UNCHANGED <<req, localVars, result, resp, calls, fnVars, storeVars>>

\* process_query: generate_embedding raised, caught by the outer handler
ProcessQueryEmbedFailed ==
    /\ pc = "embedding" /\ gwPc = "raised"
    /\ result' = FailedResult(gwOut.exc)
    /\ pc' = "respond"
    /\ UNCHANGED <<req, localVars, resp, steps, calls, fnVars, gwVars, storeVars>>

\* process_query, step 2: search_similar_chunks with limit=5; the no-chunks return
ProcessQuerySearch ==
    /\ pc = "embedding" /\ gwPc = "returned"
    /\ query_embedding' = gwOut.value
    /\ similar_chunks' = search_similar_chunks(gwOut.value, req.user_id, search_limit)
    /\ calls' = [calls EXCEPT !.search = @ + 1]
    /\ IF similar_chunks' = <<>>
         THEN pc' = "respond" /\ result' = NoChunksResult
         ELSE pc' = "build" /\ result' = result
    /\ Step("retrieve")
    /\ UNCHANGED <<req, context, sources, answer, resp, fnVars, gwVars, storeVars>>

\* the empty context not checked: the generator is called with it
ProcessQueryBuildAlwaysGenerates ==
    /\ pc = "build"
    /\ LET built == build_context(similar_chunks)
       IN  context' = built[1] /\ sources' = built[2]
    /\ pc' = "generate" /\ result' = result
    /\ Step("build_context")
    /\ UNCHANGED <<req, query_embedding, similar_chunks, answer, resp, calls,
                   fnVars, gwVars, storeVars>>

\* process_query, step 3: _build_context; the insufficient-context return
ProcessQueryBuild ==
    /\ pc = "build"
    /\ LET built == build_context(similar_chunks)
       IN  context' = built[1] /\ sources' = built[2]
    /\ IF context' = <<>>
         THEN pc' = "respond" /\ result' = InsufficientResult
         ELSE pc' = "generate" /\ result' = result
    /\ Step("build_context")
    /\ UNCHANGED <<req, query_embedding, similar_chunks, answer, resp, calls,
                   fnVars, gwVars, storeVars>>

\* the answer returned right after generation, the history step left out
ProcessQueryGenerateAndReturn ==
    /\ pc = "generate"
    /\ \E a \in Answers :
          /\ answer' = a
          /\ result' = AnsweredResult(a, sources, Query)
    /\ pc' = "respond"
    /\ calls' = [calls EXCEPT !.generate = @ + 1]
    /\ Step("generate")
    /\ UNCHANGED <<req, query_embedding, similar_chunks, context, sources, resp,
                   fnVars, gwVars, storeVars>>

\* process_query, step 4: generate_answer(query, context) returns
ProcessQueryGenerate ==
    /\ pc = "generate"
    /\ \E a \in Answers : answer' = a
    /\ pc' = "history"
    /\ calls' = [calls EXCEPT !.generate = @ + 1]
    /\ Step("generate")
    /\ UNCHANGED <<req, query_embedding, similar_chunks, context, sources, result, resp,
                   fnVars, gwVars, storeVars>>

\* process_query, step 4: generate_answer raises, caught by the outer handler
ProcessQueryGenerateFailed ==
    /\ pc = "generate"
    /\ result' = FailedResult(GenerationError)
    /\ pc' = "respond"
    /\ calls' = [calls EXCEPT !.generate = @ + 1]
    /\ Step("generate")
    /\ UNCHANGED <<req, localVars, resp, fnVars, gwVars, storeVars>>

\* process_query, steps 5-6: create_query_history commits; the answered return
ProcessQueryHistory ==
    /\ pc = "history"
    /\ query_history' = Append(query_history,
           [user_id |-> req.user_id, query |-> Query, answer |-> answer,
            sources_count |-> Len(sources)])
    /\ result' = AnsweredResult(answer, sources, Query)
    /\ pc' = "respond"
    /\ calls' = [calls EXCEPT !.history = @ + 1]
    /\ Step("record_history")
    /\ UNCHANGED <<req, localVars, resp, documents, embeddings, fnVars, gwVars>>

\* a failed history write that reaches the outer handler
ProcessQueryHistoryFailedPropagates ==
    /\ pc = "history"
    /\ result' = FailedResult(HistoryError)
    /\ pc' = "respond"
    /\ calls' = [calls EXCEPT !.history = @ + 1]
    /\ Step("record_history")
    /\ UNCHANGED <<req, localVars, resp, fnVars, gwVars, storeVars>>

\* process_query, steps 5-6: create_query_history raises, the inner handler
\* logs a warning; the answered return
ProcessQueryHistoryFailed ==
    /\ pc = "history"
    /\ result' = AnsweredResult(answer, sources, Query)
    /\ pc' = "respond"
    /\ calls' = [calls EXCEPT !.history = @ + 1]
    /\ Step("record_history")
    /\ UNCHANGED <<req, localVars, resp, fnVars, gwVars, storeVars>>

\* query_documents, lines 43-52: 500 on "error", else QueryResponse(query=result["query"], ...)
HandleResult ==
    /\ pc = "respond"
    /\ resp' =
         IF "error" \in DOMAIN result THEN HttpError(500, result.answer)
         ELSE IF "query" \notin DOMAIN result THEN Unhandled("KeyError: 'query'")
         ELSE HttpOk([query |-> result.query, answer |-> result.answer,
                      sources |-> result.sources, context_used |-> result.context_used])
    /\ pc' = "done"
    /\ UNCHANGED <<req, localVars, result, steps, calls, fnVars, gwVars, storeVars>>

Next ==
    \/ CreateDocument
    \/ StoreEmbeddings
    \/ QueryDocuments
    \/ CheckDocuments
    \/ ProcessQueryEmbed
    \/ GenCallOk
    \/ GenCallRateLimited
    \/ GenSleep
    \/ GenCallError
    \/ ProcessQueryEmbedFailed
    \/ ProcessQuerySearch
    \/ ProcessQueryBuild
    \/ ProcessQueryGenerate
    \/ ProcessQueryGenerateFailed
    \/ ProcessQueryHistory
    \/ ProcessQueryHistoryFailed
    \/ HandleResult

Spec == Init /\ [][Next]_vars

-----------------------------------------------------------------------------
(* The query request against a table that holds rows the search fails on:  *)
(* vectors of another dimension than the query's, next to good ones.  The  *)
(* read of the table can fail as well (the database is down).              *)

MaxStored == 2

RetrieveVectors == { <<1, 0>>, <<1, 0, 0>> }

RetrieveStores ==
    { RowsOf(ks) :
        ks \in UNION { [1 .. n -> [doc : 1 .. Len(SearchDocuments), vec : RetrieveVectors]] :
                         n \in 0 .. MaxStored } }

\* the failed read of the embeddings table
SearchError == [type |-> "OperationalError", text |-> "could not connect to server"]

InitRetrieve ==
    /\ fnIn = NoArg /\ fnOut = NoArg
    /\ documents = SearchDocuments /\ embeddings \in RetrieveStores /\ query_history = <<>>
    /\ InitGateway /\ InitQuery

\* the search's failure reaching process_query's own handler
ProcessQuerySearchErrorRaises ==
    /\ pc = "embedding" /\ gwPc = "returned"
    /\ query_embedding' = gwOut.value
    /\ calls' = [calls EXCEPT !.search = @ + 1]
    /\ pc' = "respond" /\ result' = FailedResult(SearchError)
    /\ Step("retrieve")
    /\ UNCHANGED <<req, similar_chunks, context, sources, answer, resp, fnVars, gwVars, storeVars>>

\* process_query, step 2, when db.query(...).all() raises inside
\* search_similar_chunks: its handler (lines 211-213) logs the error and
\* returns [], so process_query takes the no-chunks return
ProcessQuerySearchError ==
    /\ pc = "embedding" /\ gwPc = "returned"
    /\ query_embedding' = gwOut.value
    /\ similar_chunks' = <<>>
    /\ calls' = [calls EXCEPT !.search = @ + 1]
    /\ pc' = "respond" /\ result' = NoChunksResult
    /\ Step("retrieve")
    /\ UNCHANGED <<req, context, sources, answer, resp, fnVars, gwVars, storeVars>>

NextRetrieve ==
    \/ QueryDocuments
    \/ CheckDocuments
    \/ ProcessQueryEmbed
    \/ GenCallOk
    \/ GenCallRateLimited
    \/ GenSleep
    \/ GenCallError
    \/ ProcessQueryEmbedFailed
    \/ ProcessQuerySearch
    \/ ProcessQuerySearchError
    \/ ProcessQueryBuild
    \/ ProcessQueryGenerate
    \/ ProcessQueryGenerateFailed
    \/ ProcessQueryHistory
    \/ ProcessQueryHistoryFailed
    \/ HandleResult

SpecRetrieve == InitRetrieve /\ [][NextRetrieve]_vars

-----------------------------------------------------------------------------
(* PDFProcessor.__init__ and split_into_chunks (services/pdf_processor.py). *)
(* A text is its length, the positions of its sentence endings ('.', '!',  *)
(* '?', newline) and the positions of its whitespace; a chunk is the span  *)
(* of the text it was sliced from.  The processor is constructed, then     *)
(* split_into_chunks runs its loop one iteration at a time.                *)

MaxText == 6
MaxWindows == 6

\* settings.CHUNK_SIZE and settings.CHUNK_OVERLAP
CHUNK_SIZE == 1000
CHUNK_OVERLAP == 200
\* "within the last 100 characters of the chunk"
lookback == 100

ChunkText(n, ends, blanks) == [len |-> n, ends |-> ends, blanks |-> blanks]

\* every short text with at most two sentence endings, blank or not at its two ends
ShortTexts ==
    { ChunkText(n, e, b) :
        n \in 0 .. MaxText,
        e \in { x \in SUBSET (0 .. MaxText - 1) : Cardinality(x) <= 2 },
        b \in SUBSET {0, MaxText - 1} }

\* "Sentence one. Sentence two. Sentence three."
ScenarioText == ChunkText(43, {12, 26, 42}, {8, 13, 22, 27, 36})

\* texts longer than the look-back and than the default chunk size
LongTexts ==
    { ChunkText(260, {30, 140}, {}), ChunkText(1100, {950}, {}), ChunkText(1100, {}, {}) }

ChunkTexts ==
    { t \in ShortTexts : t.ends \subseteq 0 .. t.len - 1 /\ t.blanks \subseteq 0 .. t.len - 1 }
        \cup {ScenarioText} \cup LongTexts

\* the constructor's arguments <<chunk_size, chunk_overlap>>; 0 stands for
\* an argument that is 0 or None
ChunkConfigs == { <<3, 1>>, <<5, 2>>, <<4, 0>>, <<3, 3>>, <<0, 0>>, <<20, 5>>, <<150, 20>> }

\* a slice bound as Python takes it: counted from the end when negative, clipped
SliceBound(x, n) == IF x < 0 THEN Max(x + n, 0) ELSE Min(x, n)

\* text[a:b], as the span of the text it takes
Slice(t, a, b) ==
    LET from == SliceBound(a, t.len)
        to == SliceBound(b, t.len)
    IN  [from |-> from, to |-> Max(from, to)]

\* max of search_text.rfind(ending) over the four endings; -1 when none
LastEnding(t, span) ==
    LET found == { p \in t.ends : span.from <= p /\ p < span.to }
    IN  IF found = {} THEN -1
        ELSE (CHOOSE p \in found : \A q \in found : q <= p) - span.from

\* s.strip() of the span s of t
StripSpan(t, span) ==
    LET inked == { p \in span.from .. span.to - 1 : p \notin t.blanks }
    IN  IF inked = {} THEN [from |-> span.from, to |-> span.from]
        ELSE [from |-> CHOOSE p \in inked : \A q \in inked : p <= q,
              to |-> (CHOOSE p \in inked : \A q \in inked : q <= p) + 1]

EmptySpan(span) == span.to <= span.from

\* lines 86-105: the end of the window that starts at `start`
WindowEnd(t, chunk_size, start) ==
    LET end == start + chunk_size
        search_start == Max(start, end - lookback)
        last_ending == LastEnding(t, Slice(t, search_start, end))
    IN  IF end < t.len /\ last_ending # -1
          THEN search_start + last_ending + 1
          ELSE end

InitChunk ==
    /\ fnIn \in [text : ChunkTexts, config : ChunkConfigs]
    /\ fnOut = NoArg
    /\ InitGateway /\ InitStore /\ InitQuery

\* PDFProcessor(chunk_size, chunk_overlap), lines 17-18: `x or default`
Construct ==
    /\ fnOut = NoArg
    /\ fnOut' = [done |-> FALSE, pc |-> "constructed",
                 chunk_size |-> IF fnIn.config[1] # 0 THEN fnIn.config[1] ELSE CHUNK_SIZE,
                 chunk_overlap |-> IF fnIn.config[2] # 0 THEN fnIn.config[2] ELSE CHUNK_OVERLAP,
                 start |-> 0, windows |-> <<>>, chunks |-> <<>>]
    /\ UNCHANGED <<fnIn, gwVars, storeVars, qVars>>

\* split_into_chunks, lines 79-80: return [text]
SplitShort ==
    /\ fnOut # NoArg /\ fnOut.pc = "constructed"
    /\ fnIn.text.len <= fnOut.chunk_size
    /\ fnOut' = [fnOut EXCEPT !.pc = "done", !.done = TRUE,
                    !.chunks = <<Slice(fnIn.text, 0, fnIn.text.len)>>]
    /\ UNCHANGED <<fnIn, gwVars, storeVars, qVars>>

\* split_into_chunks, lines 82-85: chunks = [], start = 0, the first test of the loop
SplitLong ==
    /\ fnOut # NoArg /\ fnOut.pc = "constructed"
    /\ fnIn.text.len > fnOut.chunk_size
    /\ fnOut' = [fnOut EXCEPT !.pc = IF 0 < fnIn.text.len THEN "loop" ELSE "done",
                              !.done = ~(0 < fnIn.text.len)]
    /\ UNCHANGED <<fnIn, gwVars, storeVars, qVars>>

\* line 112: start = end - self.chunk_overlap
NextStart(start, end, chunk_overlap) == end - chunk_overlap

\* one iteration of the loop, lines 85-114
SplitIterate ==
    /\ fnOut # NoArg /\ fnOut.pc = "loop"
    /\ Len(fnOut.windows) < MaxWindows
    /\ LET end == WindowEnd(fnIn.text, fnOut.chunk_size, fnOut.start)
           chunk == StripSpan(fnIn.text, Slice(fnIn.text, fnOut.start, end))
           start == NextStart(fnOut.start, end, fnOut.chunk_overlap)
       IN  fnOut' = [fnOut EXCEPT
                        !.windows = Append(@, [start |-> fnOut.start, end |-> end]),
                        !.chunks = IF EmptySpan(chunk) THEN @ ELSE Append(@, chunk),
                        !.start = start,
                        !.pc = IF start >= fnIn.text.len THEN "done" ELSE "loop",
                        !.done = (start >= fnIn.text.len)]
    /\ UNCHANGED <<fnIn, gwVars, storeVars, qVars>>

NextChunk ==
    \/ Construct
    \/ SplitShort
    \/ SplitLong
    \/ SplitIterate

SpecChunk == InitChunk /\ [][NextChunk]_vars

-----------------------------------------------------------------------------
(* store_embeddings run by two requests at once, each in its own session   *)
(* (its own transaction) on the database the configuration names,          *)
(* PostgreSQL at its default isolation level, READ COMMITTED: a statement  *)
(* sees the rows committed when it starts; a DELETE locks the rows it      *)
(* removes and waits for a transaction that locked one of them first, then *)
(* passes over the rows that transaction removed; added rows and removals  *)
(* show at commit.  A reader reads the committed table at any moment.      *)

Writers == {1, 2}

\* what the two calls store
WriterChunks(t) ==
    IF t = 1 THEN <<Chunk(3, 1, 30)>>
             ELSE <<Chunk(2, 0, 30), Chunk(1, 0, 2500), Chunk(0, 2, 2000)>>

WriterRows(t, document_id) ==
    NewRows(document_id, WriterChunks(t),
            [k \in 1 .. Len(WriterChunks(t)) |-> BackendVector(WriterChunks(t)[k])])

\* the rows a document had before: none, or the rows of an earlier store
OldRows(document_id) ==
    NewRows(document_id, <<Chunk(0, 0, 30), Chunk(1, 0, 30)>>, <<EmbedVec(0), EmbedVec(1)>>)

OldStores == { <<>>, OldRows(1), OldRows(1) \o OldRows(2) }

SeqRange(xs) == { xs[k] : k \in 1 .. Len(xs) }

\* the committed rows of a document
DocRows(document_id) == SelectSeq(embeddings, LAMBDA e : e.document_id = document_id)

NoTx == [pc |-> "start", snapshot |-> {}, deleted |-> {}, ret |-> "none"]

InitStoreTx ==
    /\ documents = SearchDocuments
    /\ embeddings \in OldStores
    /\ query_history = <<>>
    /\ fnIn \in [old : {embeddings}, doc : [Writers -> 1 .. Len(SearchDocuments)]]
    /\ fnOut = [done |-> FALSE, tx |-> [t \in Writers |-> NoTx], read_doc |-> 0, read |-> <<>>]
    /\ InitGateway /\ InitQuery

TxAt(t, where) == fnOut.tx[t].pc = where
Active(t) == fnOut.tx[t].pc \in {"verified", "deleting", "deleted"}

\* line 124: the document is found
TxVerify(t) ==
    /\ TxAt(t, "start")
    /\ \E d \in 1 .. Len(documents) : documents[d].id = fnIn.doc[t]
    /\ fnOut' = [fnOut EXCEPT !.tx[t].pc = "verified"]
    /\ UNCHANGED <<fnIn, gwVars, storeVars, qVars>>

\* line 130: the DELETE starts and takes the document's committed rows as its targets
TxDeleteStart(t) ==
    /\ TxAt(t, "verified")
    /\ fnOut' = [fnOut EXCEPT !.tx[t].pc = "deleting",
                              !.tx[t].snapshot = SeqRange(DocRows(fnIn.doc[t]))]
    /\ UNCHANGED <<fnIn, gwVars, storeVars, qVars>>

\* line 130: the DELETE ends once no other transaction holds one of its
\* targets; it removes the targets that are still there
TxDeleteEnd(t) ==
    /\ TxAt(t, "deleting")
    /\ \A u \in Writers \ {t} :
          Active(u) => fnOut.tx[u].deleted \cap fnOut.tx[t].snapshot = {}
    /\ fnOut' = [fnOut EXCEPT !.tx[t].pc = "deleted",
                              !.tx[t].deleted = fnOut.tx[t].snapshot \cap SeqRange(embeddings)]
    /\ UNCHANGED <<fnIn, gwVars, storeVars, qVars>>

\* lines 133-144: the rows are added, the commit succeeds, True is returned
TxCommit(t) ==
    /\ TxAt(t, "deleted")
    /\ embeddings' =
           SelectSeq(embeddings, LAMBDA e : e \notin fnOut.tx[t].deleted)
             \o WriterRows(t, fnIn.doc[t])
    /\ fnOut' = [fnOut EXCEPT !.tx[t].pc = "committed", !.tx[t].ret = "True",
                              !.done = \A u \in Writers \ {t} :
                                          fnOut.tx[u].pc \in {"committed", "failed"}]
    /\ UNCHANGED <<fnIn, documents, query_history, gwVars, qVars>>

\* lines 146-149: a statement or the commit raises; rollback, False is returned
TxFail(t) ==
    /\ Active(t)
    /\ fnOut' = [fnOut EXCEPT !.tx[t].pc = "failed", !.tx[t].ret = "False",
                              !.done = \A u \in Writers \ {t} :
                                          fnOut.tx[u].pc \in {"committed", "failed"}]
    /\ UNCHANGED <<fnIn, gwVars, storeVars, qVars>>

\* get_document_chunks (and the scan of search_similar_chunks): the
\* committed rows of a document, read by another session
ReadDocumentChunks ==
    /\ \E d \in 1 .. Len(documents) :
          fnOut' = [fnOut EXCEPT !.read_doc = documents[d].id,
                                 !.read = DocRows(documents[d].id)]
    /\ UNCHANGED <<fnIn, gwVars, storeVars, qVars>>

NextStoreTx ==
    \/ \E t \in Writers : TxVerify(t)
    \/ \E t \in Writers : TxDeleteStart(t)
    \/ \E t \in Writers : TxDeleteEnd(t)
    \/ \E t \in Writers : TxCommit(t)
    \/ \E t \in Writers : TxFail(t)
    \/ ReadDocumentChunks

SpecStoreTx == InitStoreTx /\ [][NextStoreTx]_vars

-----------------------------------------------------------------------------
(* generate_embedding called by two requests at once on the one global     *)
(* embedding_service.  The instance's only field assigned after            *)
(* construction is `client` (_get_client); text, attempt and the response  *)
(* are locals of each call.  Each call keeps the backend's responses to    *)
(* it, in order.                                                           *)

Threads == {1, 2}

ThreadTexts == { Text(0, 1, 3, 0), Text(1, 0, 3, 0), Text(2, MaxPad, 0, 0) }

NoClient == 0

NoThread ==
    [pc |-> "idle", attempt |-> 0, client |-> NoClient, made |-> FALSE,
     responses |-> <<>>, out |-> NoOut]

InitThreads ==
    /\ fnIn \in [text : [Threads -> ThreadTexts]]
    /\ fnOut = [done |-> FALSE, client |-> NoClient, thr |-> [t \in Threads |-> NoThread]]
    /\ InitGateway /\ InitStore /\ InitQuery

ThrAt(t, where) == fnOut.thr[t].pc = where

Finished(t) == fnOut.thr[t].pc \in {"returned", "raised"}

\* the call has ended: so have all, once the others have
ThrEnd(t, how, out) ==
    [fnOut EXCEPT !.thr[t].pc = how, !.thr[t].out = out,
                  !.done = \A u \in Threads \ {t} : Finished(u)]

\* generate_embedding, lines 40-43: the empty-text check, range(max_retries) begins
ThrEnter(t) ==
    /\ ThrAt(t, "idle")
    /\ fnOut' = IF ~Truthy(Strip(fnIn.text[t]))
                  THEN ThrEnd(t, "raised", Raised(ValueErrorEmpty))
                  ELSE [fnOut EXCEPT !.thr[t].pc = "get_client"]
    /\ UNCHANGED <<fnIn, gwVars, storeVars, qVars>>

\* _get_client, line 26: if self.client is None
ThrClientTest(t) ==
    /\ ThrAt(t, "get_client")
    /\ fnOut' = [fnOut EXCEPT !.thr[t].pc =
                    IF fnOut.client = NoClient THEN "create" ELSE "got_client"]
    /\ UNCHANGED <<fnIn, gwVars, storeVars, qVars>>

\* _get_client, line 27: self.client = OpenAI(api_key=...), the client made by call t
ThrClientCreate(t) ==
    /\ ThrAt(t, "create")
    /\ fnOut' = [fnOut EXCEPT !.client = t, !.thr[t].made = TRUE, !.thr[t].pc = "got_client"]
    /\ UNCHANGED <<fnIn, gwVars, storeVars, qVars>>

\* _get_client, line 28: return self.client
ThrClientReturn(t) ==
    /\ ThrAt(t, "got_client")
    /\ fnOut' = [fnOut EXCEPT !.thr[t].client = fnOut.client, !.thr[t].pc = "call"]
    /\ UNCHANGED <<fnIn, gwVars, storeVars, qVars>>

\* embeddings.create succeeds: return response.data[0].embedding
ThrCallOk(t) ==
    /\ ThrAt(t, "call")
    /\ fnOut' = [ThrEnd(t, "returned", Returned(BackendVector(fnIn.text[t])))
                    EXCEPT !.thr[t].responses = Append(@, "ok")]
    /\ UNCHANGED <<fnIn, gwVars, storeVars, qVars>>

\* embeddings.create raises RateLimitError: sleep and retry, or re-raise
ThrCallRateLimited(t) ==
    /\ ThrAt(t, "call")
    /\ fnOut' = [(IF fnOut.thr[t].attempt < max_retries - 1
                    THEN [fnOut EXCEPT !.thr[t].pc = "sleep"]
                    ELSE ThrEnd(t, "raised", Raised(RateLimitError)))
                    EXCEPT !.thr[t].responses = Append(@, "rate_limit")]
    /\ UNCHANGED <<fnIn, gwVars, storeVars, qVars>>

\* embeddings.create raises any other exception: logged and re-raised
ThrCallError(t) ==
    /\ ThrAt(t, "call")
    /\ fnOut' = [ThrEnd(t, "raised", Raised(BackendError))
                    EXCEPT !.thr[t].responses = Append(@, "error")]
    /\ UNCHANGED <<fnIn, gwVars, storeVars, qVars>>

\* the attempt counter kept on the instance: a sleep counts for every call in flight
ThrSleepShared(t) ==
    /\ ThrAt(t, "sleep")
    /\ fnOut' = [fnOut EXCEPT
                    !.thr = [u \in Threads |->
                                IF u = t THEN [@[u] EXCEPT !.attempt = @ + 1, !.pc = "get_client"]
                                ELSE IF Finished(u) THEN @[u]
                                ELSE [@[u] EXCEPT !.attempt = @ + 1]]]
    /\ UNCHANGED <<fnIn, gwVars, storeVars, qVars>>

\* time.sleep(2 ** attempt), then the next iteration: attempt is the call's own
ThrSleep(t) ==
    /\ ThrAt(t, "sleep")
    /\ fnOut' = [fnOut EXCEPT !.thr[t].attempt = @ + 1, !.thr[t].pc = "get_client"]
    /\ UNCHANGED <<fnIn, gwVars, storeVars, qVars>>

NextThreads ==
    \/ \E t \in Threads : ThrEnter(t)
    \/ \E t \in Threads : ThrClientTest(t)
    \/ \E t \in Threads : ThrClientCreate(t)
    \/ \E t \in Threads : ThrClientReturn(t)
    \/ \E t \in Threads : ThrCallOk(t)
    \/ \E t \in Threads : ThrCallRateLimited(t)
    \/ \E t \in Threads : ThrCallError(t)
    \/ \E t \in Threads : ThrSleep(t)

SpecThreads == InitThreads /\ [][NextThreads]_vars


-----------------------------------------------------------------------------
(* Claims about validate_query (SpecValidate) *)

TrimmedLen == Len_(Strip(fnIn))
RawLen == Len_(fnIn)

\* C4, as stated: validate_query classifies by the trimmed text: empty when the
\* trimmed text is empty, too long above 500 characters, too short below 3, and
\* valid exactly for trimmed lengths 3..500.
C4_ClassifiedByTrimmedText ==
    fnOut.done =>
        /\ (TrimmedLen = 0 => ~fnOut.valid /\ fnOut.msg = MsgEmpty)
        /\ (TrimmedLen > MaxQueryLen => ~fnOut.valid /\ fnOut.msg = MsgTooLong)
        /\ (TrimmedLen \in 1 .. MinQueryLen - 1 => ~fnOut.valid /\ fnOut.msg = MsgTooShort)
        /\ (fnOut.valid <=> TrimmedLen \in MinQueryLen .. MaxQueryLen)
        /\ (fnOut.valid => fnOut.msg = NoMsg)

\* C4, amended: empty is decided on the trimmed text, too long on the untrimmed
\* length (and before too short), too short on the trimmed length; the input is
\* valid exactly when its untrimmed length is at most 500 and its trimmed length
\* at least 3.
C4_LengthLimitOnRawText ==
    fnOut.done =>
        /\ (TrimmedLen = 0 => ~fnOut.valid /\ fnOut.msg = MsgEmpty)
        /\ (TrimmedLen > 0 /\ RawLen > MaxQueryLen => ~fnOut.valid /\ fnOut.msg = MsgTooLong)
        /\ (TrimmedLen \in 1 .. MinQueryLen - 1 /\ RawLen <= MaxQueryLen
              => ~fnOut.valid /\ fnOut.msg = MsgTooShort)
        /\ (fnOut.valid <=> TrimmedLen >= MinQueryLen /\ RawLen <= MaxQueryLen)
        /\ (fnOut.valid => fnOut.msg = NoMsg)

\* a padded text whose trimmed length is within 3..500 is rejected as too long
C4_Witness ==
    /\ fnOut.done /\ fnOut.msg = MsgTooLong
    /\ TrimmedLen \in MinQueryLen .. MaxQueryLen /\ RawLen > MaxQueryLen

-----------------------------------------------------------------------------
(* Claims about the embedding gateway (SpecEmbed) *)

CallIdx == { p \in 1 .. Len(gwLog) : gwLog[p].ev = "call" }
\* the backend calls made for the sub-batch starting at offset f
CallsFor(f) == { p \in CallIdx : gwLog[p].from = f }
\* the call at p is the one that ends its retry loop in failure
FinalFailure(p) ==
    /\ p \in CallIdx
    /\ \/ gwLog[p].outcome = "error"
       \/ /\ gwLog[p].outcome = "rate_limit"
          /\ Cardinality({ r \in CallsFor(gwLog[p].from) : r <= p }) = max_retries

\* C5: generate_embedding calls the backend at most 3 times; a rate limit on
\* attempt 1 or 2 is followed by a wait of 1 s, then 2 s, and a retry; the vector
\* of the first successful attempt is returned; three rate limits raise the
\* rate-limit error with no further call.
C5_RetryWithBackoff ==
    gwKind = "one" =>
        /\ Cardinality(CallIdx) <= 3
        /\ \A p \in 1 .. Len(gwLog) :
              IF p % 2 = 1
                THEN /\ gwLog[p].ev = "call"
                     /\ p < Len(gwLog) => gwLog[p].outcome = "rate_limit"
                ELSE /\ gwLog[p].ev = "sleep"
                     /\ gwLog[p].secs = (IF p = 2 THEN 1 ELSE 2)
        /\ gwPc = "returned" =>
              /\ gwLog[Len(gwLog)].outcome = "ok"
              /\ gwOut = Returned(BackendVector(texts[1]))
        /\ (Cardinality(CallIdx) = 3 /\ gwLog[Len(gwLog)].outcome = "rate_limit") =>
              /\ gwPc = "raised" /\ gwOut = Raised(RateLimitError)
        /\ (gwPc = "raised" /\ gwOut.exc = RateLimitError) => Cardinality(CallIdx) = 3
        /\ (gwPc = "call" /\ Len(gwLog) > 0) => gwLog[Len(gwLog)].ev = "sleep"

\* the third attempt succeeds after waits of 1 s and 2 s
C5_Witness ==
    /\ gwKind = "one" /\ gwPc = "returned"
    /\ Cardinality(CallIdx) = 3
    /\ gwLog[2].secs = 1 /\ gwLog[4].secs = 2

\* C6: a backend error other than a rate limit, on any attempt of
\* generate_embedding or of a sub-batch, is the last event of the call: it is
\* raised with no wait and no further backend call.
C6_OtherErrorNotRetried ==
    \A p \in CallIdx :
        gwLog[p].outcome = "error" =>
            /\ p = Len(gwLog)
            /\ gwPc = "raised"
            /\ gwOut = Raised(BackendError)

\* the error comes on a retry, after a rate limit and its wait
C6_Witness ==
    /\ gwKind = "one" /\ gwPc = "raised" /\ gwOut.exc = BackendError
    /\ Len(gwLog) = 3 /\ gwLog[3].outcome = "error"

\* the offsets of the sub-batches of n texts
BatchStarts(n) == { f \in 0 .. n - 1 : f % batch_size = 0 }

\* C7: when batch_generate_embeddings returns, it returns one vector per input
\* text in input order; the successful calls are one per consecutive sub-batch of
\* at most 100 texts (none for the empty list), and every sub-batch had its own
\* budget of 3 attempts.
C7_BatchOrderAndPartition ==
    (gwKind = "many" /\ gwPc = "returned") =>
        /\ gwOut.kind = "return"
        /\ Len(gwOut.value) = Len(texts)
        /\ \A k \in 1 .. Len(texts) : gwOut.value[k] = BackendVector(texts[k])
        /\ \A p \in CallIdx :
              /\ gwLog[p].from \in BatchStarts(Len(texts))
              /\ gwLog[p].size = Min(batch_size, Len(texts) - gwLog[p].from)
              /\ gwLog[p].size <= 100
        /\ \A f \in BatchStarts(Len(texts)) :
              /\ Cardinality({ p \in CallsFor(f) : gwLog[p].outcome = "ok" }) = 1
              /\ Cardinality(CallsFor(f)) <= 3
        /\ \A p, r \in CallIdx : p < r => gwLog[p].from <= gwLog[r].from
        /\ Cardinality({ p \in CallIdx : gwLog[p].outcome = "ok" })
              = (Len(texts) + 99) \div 100

\* two sub-batches, each succeeding on its third attempt
C7_Witness ==
    /\ gwKind = "many" /\ gwPc = "returned"
    /\ Len(texts) > batch_size /\ Len(gwOut.value) = Len(texts)
    /\ Cardinality(CallsFor(0)) = 3 /\ Cardinality(CallsFor(batch_size)) = 3

\* C8: if a sub-batch of batch_generate_embeddings fails for good, the call
\* raises, returns no vector (whatever was collected), and the failing call is
\* the last one: no later sub-batch is sent.
C8_AllOrNothing ==
    gwKind = "many" =>
        /\ \A p \in CallIdx :
              FinalFailure(p) =>
                  /\ p = Len(gwLog)
                  /\ gwPc = "raised"
                  /\ gwOut.kind = "raise" /\ gwOut.value = <<>>
        /\ gwPc = "raised" => FinalFailure(Len(gwLog))
        /\ gwPc = "returned" => \A p \in CallIdx : ~FinalFailure(p)

\* the second sub-batch fails after the first one's vectors were collected
C8_Witness ==
    /\ gwKind = "many" /\ gwPc = "raised"
    /\ all_embeddings # <<>> /\ gwOut.value = <<>>
    /\ gwLog[Len(gwLog)].from = batch_size

-----------------------------------------------------------------------------
(* Claims about the query request (Spec) *)

IsPrefix(a, b) == Len(a) <= Len(b) /\ SubSeq(b, 1, Len(a)) = a

QuerySteps ==
    <<"validate", "embed", "retrieve", "build_context", "generate", "record_history">>
\* the steps performed, the endpoint's document check aside
StepsDone == SelectSeq(steps, LAMBDA x : x # "check_documents")
Done(name) == \E k \in 1 .. Len(steps) : steps[k] = name

\* the terminal state of the processed query
Returned_ == pc \in {"respond", "done"} /\ result # NoResult
Answered == Returned_ /\ result.context_used
FailedState == Returned_ /\ result.answer = MsgFailed
NoContext == Returned_ /\ ~Answered /\ ~FailedState

\* C1: the steps of a query run in the order validate, embed, retrieve,
\* build-context, generate, record-history, each starting only when the one
\* before it has completed; an answered query has performed each of the six
\* exactly once.
C1_StepsInOrder ==
    /\ IsPrefix(StepsDone, QuerySteps)
    /\ Done("embed") => validate_query(Query)[1]
    /\ Done("retrieve") => gwPc = "returned" /\ query_embedding = gwOut.value
    /\ Done("build_context") => calls.search = 1 /\ similar_chunks # <<>>
    /\ Done("generate") => context # <<>> /\ calls.generate = 1
    /\ Done("record_history") => answer \in Answers /\ calls.history = 1
    /\ Answered =>
          /\ StepsDone = QuerySteps
          /\ calls = [search |-> 1, generate |-> 1, history |-> 1]

\* an answered query, all six steps done
C1_Witness == pc = "done" /\ resp.kind = "ok" /\ StepsDone = QuerySteps

\* C2, as stated: every terminal state of a query gives a well-formed response
\* with query, answer, sources and context_used, context_used true only when
\* answered, and the endpoint never ends in an unhandled exception.
C2_WellFormedResponse ==
    (pc = "done" /\ result # NoResult) =>
        /\ {"query", "answer", "sources", "context_used"} \subseteq DOMAIN result
        /\ result.context_used => StepsDone = QuerySteps
        /\ resp.kind # "unhandled"

\* C3: a query rejected by validate_query, or of a user without documents,
\* ends with the 400 error and without any call to the embedding backend, the
\* search or the answer generator.
NoDocuments == \A d \in 1 .. Len(documents) : documents[d].user_id # req.user_id
Rejected == ~validate_query(Query)[1]
C3_RejectedBeforeBackends ==
    (pc # "idle" /\ (Rejected \/ NoDocuments)) =>
        /\ pc \in {"check_documents", "done"}
        /\ gwPc = "idle" /\ gwLog = <<>>
        /\ calls = [search |-> 0, generate |-> 0, history |-> 0]
        /\ result = NoResult
        /\ pc = "done" =>
              /\ resp.kind = "http_error" /\ resp.status = 400
              /\ resp.detail = IF Rejected THEN validate_query(Query)[2] ELSE MsgNoDocuments

\* a valid query of a user without documents, refused while another user has some
C3_Witness ==
    /\ pc = "done" /\ ~Rejected /\ NoDocuments /\ embeddings # <<>>
    /\ resp.status = 400 /\ resp.detail = MsgNoDocuments

\* C9, as stated: when the embedding or the generation backend fails, the query
\* ends with the fixed apology, no sources and context_used false, and neither
\* the process_query result nor the HTTP response holds the error's text.
BackendFailed ==
    \/ pc \in {"respond", "done"} /\ gwPc = "raised"
    \/ pc \in {"respond", "done"} /\ calls.generate = 1 /\ ~Done("record_history")
ErrorTexts == {RateLimitError.text, BackendError.text, GenerationError.text}
C9_ErrorTextNotReturned ==
    BackendFailed =>
        /\ result.answer = MsgFailed /\ result.sources = <<>> /\ ~result.context_used
        /\ \A k \in DOMAIN result \cap {"answer", "error"} : result[k] \notin ErrorTexts
        /\ pc = "done" => resp.detail \notin ErrorTexts

\* C10: a failed write of the history row is swallowed: process_query returns
\* the answered response, with the generated answer, the built sources and
\* context_used true, as it does when the write succeeds, and the endpoint
\* sends it with status 200.
HistoryWritten == query_history # <<>>
C10_HistoryFailureSwallowed ==
    (Returned_ /\ Done("record_history")) =>
        /\ DOMAIN result = {"answer", "sources", "context_used", "query"}
        /\ result.answer = answer /\ result.sources = sources
        /\ result.context_used /\ result.query = Query
        /\ pc = "done" =>
              /\ resp.kind = "ok" /\ resp.status = 200
              /\ resp.body.answer = answer /\ resp.body.sources = sources

\* the write failed (no row) and the caller got the answer
C10_Witness ==
    /\ pc = "done" /\ Done("record_history") /\ ~HistoryWritten
    /\ resp.kind = "ok" /\ resp.body.answer \in Answers /\ resp.body.context_used

\* C11, as stated: every query that reaches a terminal state of process_query
\* (answered, no context or failed) has made exactly one attempt to write its
\* history row.
C11_OneHistoryWritePerQuery == Returned_ => calls.history = 1

\* C12: no step of a query before record-history writes to the store: the
\* documents and the embeddings are left alone by every step of the query, the
\* query history by every step but record-history; so a query that fails at, or
\* stops during, the embedding or the generation call leaves the store as it was.
C12_NoWriteBeforeHistory ==
    [][pc # "idle" =>
          /\ UNCHANGED <<documents, embeddings>>
          /\ pc # "history" => UNCHANGED query_history]_vars

\* the generation call failed over a store with rows, and no history row is there
C12_Witness ==
    /\ pc = "done" /\ FailedState /\ calls.generate = 1
    /\ embeddings # <<>> /\ query_history = <<>>

\* C13: when the search returns nothing, or when the built context is empty,
\* process_query returns no sources, context_used false and a fixed message, a
\* different one in each case, and the answer generator is not called.
C13_NoContextOutcomes ==
    /\ MsgNoChunks # MsgInsufficient
    /\ (Returned_ /\ Done("retrieve") /\ similar_chunks = <<>>) =>
          /\ result.answer = MsgNoChunks
          /\ result.sources = <<>> /\ ~result.context_used
          /\ calls.generate = 0 /\ ~Done("generate")
    /\ (Returned_ /\ Done("build_context") /\ context = <<>>) =>
          /\ result.answer = MsgInsufficient
          /\ result.sources = <<>> /\ ~result.context_used
          /\ calls.generate = 0 /\ ~Done("generate")

\* the search returned chunks, all of them below the threshold
C13_Witness ==
    /\ Returned_ /\ similar_chunks # <<>> /\ Done("build_context") /\ context = <<>>
    /\ result.answer = MsgInsufficient

\* C26, as stated: the search of a query is run with the request's top_k,
\* clamped to the cap, as its limit, and at most that many chunks reach
\* _build_context.
C26_TopKFromRequest ==
    Done("retrieve") =>
        /\ similar_chunks
              = search_similar_chunks(query_embedding, req.user_id, Min(req.top_k, max_limit))
        /\ Len(similar_chunks) <= Min(req.top_k, max_limit)


\* C28, as stated: a document that was uploaded has been chunked, embedded and
\* stored: when a later query of its owner reaches the search, every document
\* of the owner has its chunks in the embeddings table.
C28_UploadedIsRetrievable ==
    Done("retrieve") =>
        \A d \in 1 .. Len(documents) :
            documents[d].user_id = req.user_id =>
                \E r \in 1 .. Len(embeddings) : embeddings[r].document_id = documents[d].id

-----------------------------------------------------------------------------
(* Claims about search_similar_chunks (SpecSearch) *)

SearchOut == fnOut.value
\* the rows the search scores: the scanned rows that hold an embedding
Candidates == SelectSeq(ScanRows(fnIn.user_id), LAMBDA e : e.embedding # <<>>)
SameDim(e) == Len(e.embedding) = Len(fnIn.query_embedding)
SimOf(e) == Cosine(fnIn.query_embedding, e.embedding)
\* the row's similarity to the query is a number
Defined(e) == SameDim(e) /\ ~IsNaN(SimOf(e))
\* a row, and the result made from it, are known by document and chunk index
RowKey(x) == <<x.document_id, x.chunk_index>>
ScanPos(x) == CHOOSE r \in 1 .. Len(embeddings) : RowKey(embeddings[r]) = RowKey(x)
ReturnedKeys == { RowKey(SearchOut[k]) : k \in 1 .. Len(SearchOut) }
OwnerOf(document_id) ==
    documents[CHOOSE d \in 1 .. Len(documents) : documents[d].id = document_id].user_id

\* C14: when every candidate is scored, the search returns min(limit, number
\* of candidates) distinct candidates with their similarities, sorted by
\* similarity descending; every candidate left out is no more similar than any
\* returned one; equal similarities keep the scan's order, so the output is
\* fixed by the scanned rows, the query vector and the limit.
C14_SortedThenTruncated ==
    (fnOut.done /\ \A r \in 1 .. Len(Candidates) : Defined(Candidates[r])) =>
        /\ Len(SearchOut) = Min(fnIn.limit, Len(Candidates))
        /\ \A k \in 1 .. Len(SearchOut) :
              \E r \in 1 .. Len(Candidates) :
                  /\ RowKey(Candidates[r]) = RowKey(SearchOut[k])
                  /\ SearchOut[k].similarity = SimOf(Candidates[r])
                  /\ SearchOut[k].chunk_text = Candidates[r].chunk_text
        /\ \A j, k \in 1 .. Len(SearchOut) :
              j < k =>
                  /\ RowKey(SearchOut[j]) # RowKey(SearchOut[k])
                  /\ ~SimLess(SearchOut[j].similarity, SearchOut[k].similarity)
                  /\ ~SimLess(SearchOut[k].similarity, SearchOut[j].similarity)
                        => ScanPos(SearchOut[j]) < ScanPos(SearchOut[k])
        /\ \A r \in 1 .. Len(Candidates) :
              RowKey(Candidates[r]) \notin ReturnedKeys =>
                  \A k \in 1 .. Len(SearchOut) :
                      /\ ~SimLess(SearchOut[k].similarity, SimOf(Candidates[r]))
                      /\ ~SimLess(SimOf(Candidates[r]), SearchOut[k].similarity)
                            => ScanPos(SearchOut[k]) < ScanPos(Candidates[r])

\* more candidates than the limit, and the one returned is not the first scanned
C14_Witness ==
    /\ fnOut.done /\ \A r \in 1 .. Len(Candidates) : Defined(Candidates[r])
    /\ Len(Candidates) > fnIn.limit /\ Len(SearchOut) = fnIn.limit
    /\ RowKey(SearchOut[1]) # RowKey(Candidates[1])

\* the candidates of the query's dimension
Remaining == SelectSeq(Candidates, SameDim)

\* C15, as stated: a stored vector of another dimension than the query's is
\* skipped alone: the search still returns the ranked results of the remaining
\* candidates.
C15_MismatchSkipped ==
    (/\ fnOut.done
     /\ \E r \in 1 .. Len(Candidates) : ~SameDim(Candidates[r])
     /\ \A r \in 1 .. Len(Remaining) : Defined(Remaining[r])) =>
        /\ Len(SearchOut) = Min(fnIn.limit, Len(Remaining))
        /\ \A k \in 1 .. Len(SearchOut) :
              \E r \in 1 .. Len(Remaining) : RowKey(Remaining[r]) = RowKey(SearchOut[k])
        /\ \A j, k \in 1 .. Len(SearchOut) :
              j < k => ~SimLess(SearchOut[j].similarity, SearchOut[k].similarity)

\* C16, as stated: a candidate whose similarity is undefined, its vector or the
\* query vector having zero norm, is left out of the output: no result carries
\* an undefined similarity, and the results with a defined similarity are in
\* descending order.
C16_UndefinedExcluded ==
    (fnOut.done /\ \A r \in 1 .. Len(Candidates) : SameDim(Candidates[r])) =>
        /\ \A k \in 1 .. Len(SearchOut) : ~IsNaN(SearchOut[k].similarity)
        /\ \A j, k \in 1 .. Len(SearchOut) :
              j < k => ~SimLess(SearchOut[j].similarity, SearchOut[k].similarity)

\* C17, as stated: for every user id, the search returns only chunks of
\* documents owned by that user.
C17_ScopedToUser ==
    fnOut.done =>
        \A k \in 1 .. Len(SearchOut) : OwnerOf(SearchOut[k].document_id) = fnIn.user_id

-----------------------------------------------------------------------------
(* Claims about _build_context (SpecBuild) *)

BuildParts == fnOut.context
BuildSources == fnOut.sources
\* similarity < min_similarity
Below(x) == LtRat(x.similarity, min_similarity_tenths, 10)
Blank(x) == Len_(Strip(x.chunk_text)) = 0
\* the results that pass the filter and have a text
Eligible == SelectSeq(fnIn, LAMBDA x : ~Below(x) /\ ~Blank(x))
\* the results whose text is in the context
Included == SubSeq(Eligible, 1, Len(BuildParts))
\* the first included chunk of the document of Included[k]
FirstOf(k) ==
    CHOOSE f \in 1 .. k :
        /\ Included[f].document_id = Included[k].document_id
        /\ \A g \in 1 .. f - 1 : Included[g].document_id # Included[k].document_id

\* C18: the context is made of the texts of results that are not below the
\* threshold, in their order, and every source is one of those results; when
\* no result passes the filter, the context and the sources are empty.
C18_ThresholdFilter ==
    fnOut.done =>
        /\ Len(BuildParts) <= Len(Eligible)
        /\ \A k \in 1 .. Len(BuildParts) : BuildParts[k] = Strip(Eligible[k].chunk_text)
        /\ \A s \in 1 .. Len(BuildSources) :
              \E k \in 1 .. Len(BuildParts) :
                  /\ Eligible[k].document_id = BuildSources[s].document_id
                  /\ Eligible[k].chunk_index = BuildSources[s].chunk_index
        /\ (\A k \in 1 .. Len(fnIn) : Below(fnIn[k])) =>
              /\ BuildParts = <<>> /\ JoinedLen(BuildParts) = 0
              /\ BuildSources = <<>>

\* a result with a text is below the threshold and left out; the others are in
C18_Witness ==
    /\ fnOut.done
    /\ \E k \in 1 .. Len(fnIn) : Below(fnIn[k]) /\ ~Blank(fnIn[k])
    /\ BuildParts # <<>> /\ Len(BuildParts) = Len(Eligible)

\* C19, as stated: the context returned by _build_context is never longer
\* than max_context_length plus the length of one separator.
C19_ContextBudget ==
    fnOut.done => JoinedLen(BuildParts) <= max_context_length + separator_len

\* C20: no two sources have the same document_id; each document with an
\* included chunk has one source, that of its first included chunk; a later
\* included chunk of the document adds its text to the context and no source.
C20_SourceDedup ==
    fnOut.done =>
        /\ \A s, t \in 1 .. Len(BuildSources) :
              s # t => BuildSources[s].document_id # BuildSources[t].document_id
        /\ Len(BuildSources)
              = Cardinality({ Included[k].document_id : k \in 1 .. Len(Included) })
        /\ \A k \in 1 .. Len(Included) :
              /\ BuildParts[k] = Strip(Included[k].chunk_text)
              /\ \E s \in 1 .. Len(BuildSources) :
                    /\ BuildSources[s].document_id = Included[k].document_id
                    /\ BuildSources[s].chunk_index = Included[FirstOf(k)].chunk_index
                    /\ BuildSources[s].similarity = RoundSim(Included[FirstOf(k)].similarity)
                    /\ BuildSources[s].document_filename
                          = Included[FirstOf(k)].document_filename

\* the third included chunk is of the first one's document: three texts, two sources
C20_Witness ==
    /\ fnOut.done /\ Len(BuildParts) = 3 /\ Len(BuildSources) = 2
    /\ Included[3].document_id = Included[1].document_id

\* the first eligible result whose text does not fit in what is left of the budget
Fits(k) == SumLen([j \in 1 .. k |-> Strip(Eligible[j].chunk_text)]) <= max_context_length
FirstOver == IF \A k \in 1 .. Len(Eligible) : Fits(k) THEN Len(Eligible) + 1
             ELSE CHOOSE k \in 1 .. Len(Eligible) : ~Fits(k) /\ \A j \in 1 .. k - 1 : Fits(j)

\* C29: the results are taken in the given order, and accumulation stops for
\* good at the first result passing the filter whose text would take the total
\* above max_context_length: the included chunks are exactly the eligible
\* results before it, and no later result adds a text or a source, even one
\* that would fit.
C29_BudgetStopRule ==
    fnOut.done =>
        /\ Len(BuildParts) = FirstOver - 1
        /\ \A k \in 1 .. Len(BuildParts) : BuildParts[k] = Strip(Eligible[k].chunk_text)
        /\ \A s \in 1 .. Len(BuildSources) :
              \E k \in 1 .. FirstOver - 1 :
                  /\ Eligible[k].document_id = BuildSources[s].document_id
                  /\ Eligible[k].chunk_index = BuildSources[s].chunk_index

\* the second result does not fit, the third one would have, and is left out
C29_Witness ==
    /\ fnOut.done /\ Len(Eligible) = 3 /\ Len(BuildParts) = 1
    /\ Len_(BuildParts[1]) + Len_(Strip(Eligible[3].chunk_text)) <= max_context_length
    /\ Eligible[3].document_id # Eligible[1].document_id

-----------------------------------------------------------------------------
(* Claims about a failing search (SpecRetrieve) *)

\* np.dot raises on a scanned row whose vector has another length than the query's
SearchFails(query_vec, user_id) ==
    \E k \in 1 .. Len(ScanRows(user_id)) :
        /\ ScanRows(user_id)[k].embedding # <<>>
        /\ Len(ScanRows(user_id)[k].embedding) # Len(query_vec)

\* C30: a failure inside search_similar_chunks never reaches process_query as
\* an exception: the search yields the empty list, so the query ends with the
\* no-chunks answer, without an error marker and without a call of the
\* generator; an error marker comes from the embedding step (before the
\* search) or from the generation step only.
C30_SearchFailureIsNoContext ==
    Returned_ =>
        /\ (Done("retrieve") /\ (SearchFails(query_embedding, req.user_id) \/ similar_chunks = <<>>)) =>
              /\ similar_chunks = <<>>
              /\ result = NoChunksResult
              /\ "error" \notin DOMAIN result
              /\ calls.generate = 0
        /\ "error" \in DOMAIN result => (~Done("retrieve") \/ Done("generate"))

\* a search that failed on a row of another dimension although the user has a good row
C30_Witness ==
    /\ Returned_ /\ Done("retrieve")
    /\ SearchFails(query_embedding, req.user_id)
    /\ \E k \in 1 .. Len(ScanRows(req.user_id)) :
            Len(ScanRows(req.user_id)[k].embedding) = Len(query_embedding)
    /\ result = NoChunksResult

-----------------------------------------------------------------------------
(* Claims about the chunker (SpecChunk) *)

Constructed == fnOut # NoArg
Chunked == fnOut # NoArg /\ fnOut.pc = "done"

\* the configuration the caller gave meets the chunker's precondition
ValidConfig == fnIn.config[1] > 0 /\ fnIn.config[2] >= 0 /\ fnIn.config[2] < fnIn.config[1]

\* C21, as stated: with a valid configuration the loop terminates.  The loop's
\* only state is `start`, so it runs forever exactly when an iteration begins
\* at a start an earlier iteration began at: no start comes twice.
C21_ChunkerTerminates ==
    (Constructed /\ ValidConfig) =>
        \A j, k \in 1 .. Len(fnOut.windows) :
            j < k => fnOut.windows[j].start # fnOut.windows[k].start

\* the part of the text the window w slices
Covered(w) == Slice(fnIn.text, w.start, w.end)

\* C22, as stated: for a text longer than chunk_size (valid configuration) the
\* windows of a finished run cover the text: the first starts at 0, every
\* start is in 0 .. len(text), the next start is not after the previous end,
\* the last window reaches len(text), and every position is in some window.
C22_NoDataLoss ==
    (Chunked /\ ValidConfig /\ fnIn.text.len > fnIn.config[1]) =>
        LET w == fnOut.windows
        IN  /\ w # <<>>
            /\ w[1].start = 0
            /\ \A k \in 1 .. Len(w) : w[k].start \in 0 .. fnIn.text.len
            /\ \A k \in 1 .. Len(w) - 1 : w[k + 1].start <= w[k].end
            /\ w[Len(w)].end >= fnIn.text.len
            /\ \A p \in 0 .. fnIn.text.len - 1 :
                   \E k \in 1 .. Len(w) : Covered(w[k]).from <= p /\ p < Covered(w[k]).to

\* C23, as stated: a text not longer than chunk_size gives exactly one chunk,
\* the trimmed text, and no chunk when nothing is left after trimming.
C23_ShortText ==
    (Chunked /\ ValidConfig /\ fnIn.text.len <= fnIn.config[1]) =>
        LET trimmed == StripSpan(fnIn.text, Slice(fnIn.text, 0, fnIn.text.len))
        IN  fnOut.chunks = IF EmptySpan(trimmed) THEN <<>> ELSE <<trimmed>>

\* C24, as stated: a configuration with chunk_size <= 0 or overlap >= chunk_size
\* fails with ConfigurationError: the processor never chunks with it, and the
\* values it works with are the configured ones.
C24_ConfigError ==
    (Constructed /\ ~ValidConfig) =>
        /\ fnOut.pc = "ConfigurationError"
        /\ fnOut.windows = <<>> /\ fnOut.chunks = <<>>
        /\ fnOut.chunk_size = fnIn.config[1] /\ fnOut.chunk_overlap = fnIn.config[2]

-----------------------------------------------------------------------------
(* Claims about concurrent store_embeddings (SpecStoreTx) *)

\* the sets a document may hold: the old one, or the complete set of one writer
CompleteSets(document_id) ==
    { SeqRange(SelectSeq(fnIn.old, LAMBDA e : e.document_id = document_id)) }
        \cup { SeqRange(WriterRows(t, document_id)) : t \in { u \in Writers : fnIn.doc[u] = document_id } }

-----------------------------------------------------------------------------
(* Claims about concurrent embedding calls (SpecThreads) *)

\* generate_embedding run alone on `text` with the backend answering `responses`
RECURSIVE AloneFrom(_, _, _)
AloneFrom(text, responses, n) ==
    IF responses = <<>> THEN NoOut
    ELSE IF responses[1] = "ok" THEN Returned(BackendVector(text))
    ELSE IF responses[1] = "error" THEN Raised(BackendError)
    ELSE IF n < max_retries - 1 THEN AloneFrom(text, Tail(responses), n + 1)
    ELSE Raised(RateLimitError)

Alone(text, responses) ==
    IF ~Truthy(Strip(text)) THEN Raised(ValueErrorEmpty) ELSE AloneFrom(text, responses, 0)

\* C27: under every interleaving of two calls on the shared service, a call
\* that has ended has the outcome it has when run alone on its text with the
\* backend responses it got, whichever client it made or was handed; a call
\* in flight has no outcome yet.
C27_Reentrant ==
    \A t \in Threads :
        /\ Finished(t) => /\ fnOut.thr[t].out = Alone(fnIn.text[t], fnOut.thr[t].responses)
                          /\ fnOut.thr[t].out # NoOut
        /\ ~Finished(t) => fnOut.thr[t].out = NoOut

\* both calls made a client, one used the other's, one was rate limited before it returned
C27_Witness ==
    /\ \A t \in Threads : Finished(t) /\ fnOut.thr[t].made
    /\ fnOut.thr[1].client = 2
    /\ fnOut.thr[1].responses = <<"rate_limit", "ok">>
    /\ fnOut.thr[2].responses = <<"rate_limit", "rate_limit", "rate_limit">>

=============================================================================
